---- MODULE Spec2Model ----
\* A model of NestContainer (src/src/core/injector/container.ts): the module
\* registry, the dynamic metadata store, the global-module set, and the
\* operations that register modules, link them and populate them.
EXTENDS Integers, Sequences, FiniteSets, TLC

\* ---------------------------------------------------------------- bounds

\* A registering addModule is offered while the records held plus the clears
\* done are fewer than this.
MaxModules == 2
\* Total number of providers/injectables/exports/controllers over all records.
MaxContrib == 1
\* Number of clear() calls that drop at least one record.
MaxClears == 1
\* The nesting of addModule frames the call stack of the runtime holds: a
\* frame entered with a scope of this many types is one too many, and the call
\* that would enter it raises RangeError.
StackLimit == 3

\* ---------------------------------------------------------------- inputs

\* Module classes (Type<any>). "Glob" carries GLOBAL_MODULE_METADATA.
Types == {"Root", "Sub", "Glob"}
GlobalTypes == {"Glob"}

\* A falsy module reference (undefined / null).
Absent == "undefined"

\* Dynamic module descriptors ({module, modules?, imports?, ...}), by name.
\* keys is the set of list fields the descriptor object carries.
Descriptors ==
  [ DynMod |-> [module |-> "Root", keys |-> {"modules", "imports"},
                modules |-> <<"Sub">>, imports |-> <<"Glob">>],
    DynBad |-> [module |-> "Glob", keys |-> {"modules"},
                modules |-> <<"Sub", "undefined">>, imports |-> <<>>],
    DynOne |-> [module |-> "Sub", keys |-> {},
                modules |-> <<>>, imports |-> <<>>] ]

DescriptorNames == DOMAIN Descriptors

\* Descriptor objects whose lists lead back to an object already being
\* registered: one that imports itself, and two that list each other.
CyclicDescriptors ==
  [ DynLoop |-> [module |-> "Root", keys |-> {"imports"},
                 modules |-> <<>>, imports |-> <<"DynLoop">>],
    DynPing |-> [module |-> "Sub", keys |-> {"modules"},
                 modules |-> <<"DynPong">>, imports |-> <<>>],
    DynPong |-> [module |-> "Root", keys |-> {"modules"},
                 modules |-> <<"DynPing">>, imports |-> <<>>] ]

\* Every descriptor object there is.
AllDescriptors == Descriptors @@ CyclicDescriptors

\* Everything a caller may pass as a module reference.
Refs == Types \cup DescriptorNames \cup {Absent}

\* Scopes a bootstrap caller passes: the root's, and that of the root's imports.
ScopeInputs == {<<>>, <<"Root">>}

\* The addModule calls a caller makes: any reference under the empty scope,
\* and Root's imports (a class of another type, one of its own type, a
\* descriptor) under Root's scope.
Registrations ==
  (Refs \X {<<>>}) \cup ({"Sub", "Root", "DynOne"} \X {<<"Root">>})

\* The addModule calls a caller makes with a descriptor that leads back to
\* itself.
CyclicRegistrations == {"DynLoop", "DynPing"} \X {<<>>}

Components == {"Svc"}
MetadataKeys == {"modules", "imports"}

\* What a caller names as a related module.
RelatedRefs == Types \cup {"DynOne"}

None == "none"

\* ------------------------------------------------- collaborators (not in src)

\* The dynamicMetadata of a static module reference (undefined).
NoDynamic == [defined |-> FALSE, keys |-> {}, modules |-> <<>>, imports |-> <<>>]

\* ModuleTokenFactory.create: a deterministic identity of the triple
\* (type, scope, dynamic configuration), structural in the configuration.
CreateToken(type, scope, dynamicMetadata) ==
  [module |-> type, scope |-> scope, dynamic |-> dynamicMetadata]

\* new Module(type, scope, container): an object with its own identity (id)
\* and empty collections.
NewModule(type, scope, id) ==
  [id |-> id, metatype |-> type, scope |-> scope, relatedModules |-> {},
   components |-> {}, injectables |-> {}, exports |-> {}, routes |-> {}]

\* Module.addRelatedModule(related): related is the set holding the record
\* found, or the empty set for undefined (a no-op).
ModuleAddRelatedModule(m, related) ==
  [m EXCEPT !.relatedModules = @ \cup related]

ModuleAddComponent(m, component) == [m EXCEPT !.components = @ \cup {component}]
ModuleAddInjectable(m, injectable) == [m EXCEPT !.injectables = @ \cup {injectable}]
ModuleAddExportedComponent(m, component) == [m EXCEPT !.exports = @ \cup {component}]
ModuleAddRoute(m, controller) == [m EXCEPT !.routes = @ \cup {controller}]

\* ---------------------------------------------------------------- state

VARIABLES
  modules,                 \* this.modules: token -> Module record
  dynamicModulesMetadata,  \* this.dynamicModulesMetadata: token -> descriptor rest
  globalModules,           \* this.globalModules: set of Module identities
  epoch,                   \* number of clears so far (part of a record's identity)
  last                     \* the last completed call: what it was given and how it ended

vars == <<modules, dynamicModulesMetadata, globalModules, epoch, last>>

\* The container's three stores as one value, threaded through a call.
Container(ms, md, gs) == [modules |-> ms, metadata |-> md, globals |-> gs]

Here == Container(modules, dynamicModulesMetadata, globalModules)

\* A function f extended (or overwritten) at k, as Map.set does.
MapSet(f, k, v) == [x \in DOMAIN f \cup {k} |-> IF x = k THEN v ELSE f[x]]

EmptyMap == [x \in {} |-> 0]

\* ---------------------------------------------------------------- registration

\* isDynamicModule: the reference carries a truthy `module` field.
isDynamicModule(ref) == ref \in DOMAIN AllDescriptors

\* extractMetadata: (type, dynamicMetadata); a descriptor is split into its
\* `module` field and the rest, a class is its own type with no metadata.
extractMetadata(ref) ==
  IF ~isDynamicModule(ref)
  THEN [type |-> ref, dynamicMetadata |-> NoDynamic]
  ELSE [type |-> AllDescriptors[ref].module,
        dynamicMetadata |-> [defined |-> TRUE,
                             keys |-> AllDescriptors[ref].keys,
                             modules |-> AllDescriptors[ref].modules,
                             imports |-> AllDescriptors[ref].imports]]

\* isGlobalModule: Reflect.getMetadata(GLOBAL_MODULE_METADATA, metatype).
isGlobalModule(type) == type \in GlobalTypes

\* addGlobalModule: this.globalModules.add(module).
addGlobalModule(c, id) == [c EXCEPT !.globals = @ \cup {id}]

\* The outcome of a call: the container it leaves and the error it raised.
Outcome(c, err) == [c |-> c, err |-> err]

\* The token addModule / addRelatedModule compute for a reference under a scope.
TokenOf(ref, scope) ==
  CreateToken(extractMetadata(ref).type, scope, extractMetadata(ref).dynamicMetadata)

\* StoreNewModule with the record created for the empty scope.
StoreNewModule_NoScope(c, token, type, scope, e) ==
  [c EXCEPT !.modules =
     MapSet(@, token, NewModule(type, <<>>, [token |-> token, epoch |-> e]))]

\* What addModule does once the token is known to be new, up to the recursion:
\* create the record and store it under the token.
StoreNewModule(c, token, type, scope, e) ==
  [c EXCEPT !.modules =
     MapSet(@, token, NewModule(type, scope, [token |-> token, epoch |-> e]))]

\* What addModule does after the nested registration returned normally.
FinishAddModule(c, token, type) ==
  IF isGlobalModule(type) THEN addGlobalModule(c, c.modules[token].id) ELSE c

\* StoreDynamicMetadata that stores nothing.
StoreDynamicMetadata_Skip(c, token, dynamicMetadata) == c

\* StoreDynamicMetadata that keys the configuration by the token of the nested
\* scope instead of the token it was given.
StoreDynamicMetadata_NestedToken(c, token, dynamicMetadata) ==
  [c EXCEPT !.metadata =
     MapSet(@, [token EXCEPT !.scope = Append(@, token.module)], dynamicMetadata)]

\* What addDynamicMetadata stores before it recurses.
StoreDynamicMetadata(c, token, dynamicMetadata) ==
  [c EXCEPT !.metadata = MapSet(@, token, dynamicMetadata)]

\* NestedScope that hands the caller's scope on as it is.
NestedScope_Same(scope, type) == scope

\* The scope addModule hands to the nested registration: [].concat(scope, type).
NestedScope(scope, type) == Append(scope, type)

RECURSIVE addModule(_, _, _, _)
RECURSIVE addDynamicModules(_, _, _, _, _)

\* addDynamicMetadata(token, dynamicModuleMetadata, scope)
addDynamicMetadata(c, token, dynamicMetadata, scope, e) ==
  IF ~dynamicMetadata.defined
  THEN Outcome(c, None)
  ELSE LET c1 == StoreDynamicMetadata(c, token, dynamicMetadata)
           r1 == addDynamicModules(c1, "modules" \in dynamicMetadata.keys,
                                   dynamicMetadata.modules, scope, e)
       IN  IF r1.err # None
           THEN r1
           ELSE addDynamicModules(r1.c, "imports" \in dynamicMetadata.keys,
                                  dynamicMetadata.imports, scope, e)

\* addDynamicModules(modules, scope): modules.map(m => addModule(m, scope)),
\* left to right, the first exception ending the map.
addDynamicModules(c, present, list, scope, e) ==
  IF ~present \/ list = <<>>
  THEN Outcome(c, None)
  ELSE LET r == addModule(c, Head(list), scope, e)
       IN  IF r.err # None
           THEN r
           ELSE addDynamicModules(r.c, TRUE, Tail(list), scope, e)

\* addModule without the `if (this.modules.has(token)) return` guard.
addModule_NoHasCheck(c, ref, scope, e) ==
  IF ref = Absent
  THEN Outcome(c, "InvalidModuleException")
  ELSE LET type == extractMetadata(ref).type
           dynamicMetadata == extractMetadata(ref).dynamicMetadata
           token == CreateToken(type, scope, dynamicMetadata)
           c1 == StoreNewModule(c, token, type, scope, e)
           r  == IF token \in DOMAIN c.modules
                 THEN Outcome(c1, None)
                 ELSE addDynamicMetadata(c1, token, dynamicMetadata,
                                         NestedScope(scope, type), e)
       IN  IF r.err # None
           THEN r
           ELSE Outcome(FinishAddModule(r.c, token, type), None)

\* addModule without the `if (!metatype) throw` guard: the absent reference is
\* registered as if it were a class.
addModule_NoAbsentCheck(c, ref, scope, e) ==
  LET type == extractMetadata(ref).type
      dynamicMetadata == extractMetadata(ref).dynamicMetadata
      token == CreateToken(type, scope, dynamicMetadata)
  IN  IF token \in DOMAIN c.modules
      THEN Outcome(c, None)
      ELSE LET c1 == StoreNewModule(c, token, type, scope, e)
               r  == addDynamicMetadata(c1, token, dynamicMetadata,
                                        NestedScope(scope, type), e)
           IN  IF r.err # None
               THEN r
               ELSE Outcome(FinishAddModule(r.c, token, type), None)

\* addModule(metatype, scope). Every nested frame is entered with a scope one
\* type longer than its caller's, so the length of the scope tells how deep the
\* frame is; one too deep for the call stack raises RangeError, which
\* propagates like any other error.
addModule(c, ref, scope, e) ==
  IF Len(scope) >= StackLimit
  THEN Outcome(c, "RangeError")
  ELSE IF ref = Absent
  THEN Outcome(c, "InvalidModuleException")
  ELSE LET type == extractMetadata(ref).type
           dynamicMetadata == extractMetadata(ref).dynamicMetadata
           token == CreateToken(type, scope, dynamicMetadata)
       IN  IF token \in DOMAIN c.modules
           THEN Outcome(c, None)
           ELSE LET c1 == StoreNewModule(c, token, type, scope, e)
                    r  == addDynamicMetadata(c1, token, dynamicMetadata,
                                             NestedScope(scope, type), e)
                IN  IF r.err # None
                    THEN r
                    ELSE Outcome(FinishAddModule(r.c, token, type), None)

\* ---------------------------------------------------------------- linking

\* this.modules.get(token): the set holding the record's identity, or the
\* empty set for undefined.
Lookup(c, token) ==
  IF token \in DOMAIN c.modules THEN {c.modules[token].id} ELSE {}

\* RelatedToken computed from the owner's scope alone.
RelatedToken_OwnerScope(owner, relatedModule) ==
  TokenOf(relatedModule, owner.scope)

\* RelatedToken computed from the empty scope.
RelatedToken_EmptyScope(owner, relatedModule) == TokenOf(relatedModule, <<>>)

\* The token addRelatedModule computes for the related module of an owner.
RelatedToken(owner, relatedModule) ==
  TokenOf(relatedModule, NestedScope(owner.scope, owner.metatype))

\* addRelatedModule without the `if (!this.modules.has(token)) return` guard:
\* reading metatype of undefined raises.
addRelatedModule_NoHasCheck(c, relatedModule, token) ==
  IF token \notin DOMAIN c.modules
  THEN Outcome(c, "TypeError")
  ELSE LET module  == c.modules[token]
           related == Lookup(c, TokenOf(relatedModule,
                                        Append(module.scope, module.metatype)))
       IN  Outcome([c EXCEPT !.modules[token] = ModuleAddRelatedModule(@, related)],
                   None)

\* addRelatedModule(relatedModule, token)
addRelatedModule(c, relatedModule, token) ==
  IF token \notin DOMAIN c.modules
  THEN Outcome(c, None)
  ELSE LET module  == c.modules[token]
           related == Lookup(c, RelatedToken(module, relatedModule))
       IN  Outcome([c EXCEPT !.modules[token] = ModuleAddRelatedModule(@, related)],
                   None)

\* bindGlobalModuleToModule without the self check.
bindGlobalModuleToModule_NoSelfCheck(module, globalModule) ==
  ModuleAddRelatedModule(module, {globalModule})

\* bindGlobalModuleToModule(module, globalModule): module as a record,
\* globalModule as an identity.
bindGlobalModuleToModule(module, globalModule) ==
  IF module.id = globalModule
  THEN module
  ELSE ModuleAddRelatedModule(module, {globalModule})

\* bindGlobalsToRelatedModules(module): every global module in turn. The
\* edges are a set, so the order of the turns does not show.
RECURSIVE bindGlobalsOver(_, _)
bindGlobalsOver(module, globals) ==
  IF globals = {}
  THEN module
  ELSE LET g == CHOOSE x \in globals : TRUE
       IN  bindGlobalsOver(bindGlobalModuleToModule(module, g), globals \ {g})

\* bindGlobalsToRelatedModules that stops after the first global module.
bindGlobalsToRelatedModules_FirstOnly(c, module) ==
  IF c.globals = {}
  THEN module
  ELSE bindGlobalModuleToModule(module, CHOOSE x \in c.globals : TRUE)

\* bindGlobalsToRelatedModules that also hands the module whatever the other
\* global modules are related to.
bindGlobalsToRelatedModules_Transitive(c, module) ==
  LET held == {t \in DOMAIN c.modules :
                 c.modules[t].id \in c.globals /\ c.modules[t].id # module.id}
      inherited == UNION {c.modules[t].relatedModules : t \in held}
  IN  ModuleAddRelatedModule(bindGlobalsOver(module, c.globals), inherited)

bindGlobalsToRelatedModules(c, module) == bindGlobalsOver(module, c.globals)

\* bindGlobalScope(): this.modules.forEach(bindGlobalsToRelatedModules).
bindGlobalScope(c) ==
  Outcome([c EXCEPT !.modules =
             [t \in DOMAIN @ |-> bindGlobalsToRelatedModules(c, @[t])]],
          None)

\* ---------------------------------------------------------------- population

\* addComponent that lets an unknown token pass.
addComponent_NoCheck(c, component, token) ==
  IF token \notin DOMAIN c.modules
  THEN Outcome(c, None)
  ELSE Outcome([c EXCEPT !.modules[token] = ModuleAddComponent(@, component)], None)

\* The four populating calls share their shape: reject an unknown token, else
\* delegate to the record.
addComponent(c, component, token) ==
  IF token \notin DOMAIN c.modules
  THEN Outcome(c, "UnknownModuleException")
  ELSE Outcome([c EXCEPT !.modules[token] = ModuleAddComponent(@, component)], None)

addInjectable(c, injectable, token) ==
  IF token \notin DOMAIN c.modules
  THEN Outcome(c, "UnknownModuleException")
  ELSE Outcome([c EXCEPT !.modules[token] = ModuleAddInjectable(@, injectable)], None)

addExportedComponent(c, exportedComponent, token) ==
  IF token \notin DOMAIN c.modules
  THEN Outcome(c, "UnknownModuleException")
  ELSE Outcome([c EXCEPT !.modules[token] =
                  ModuleAddExportedComponent(@, exportedComponent)], None)

addController(c, controller, token) ==
  IF token \notin DOMAIN c.modules
  THEN Outcome(c, "UnknownModuleException")
  ELSE Outcome([c EXCEPT !.modules[token] = ModuleAddRoute(@, controller)], None)

\* clear(): this.modules.clear(), and nothing else.
\* clear that empties the dynamic metadata store as well.
clear_WithMetadata(c) ==
  Outcome([c EXCEPT !.modules = EmptyMap, !.metadata = EmptyMap], None)

\* clear that empties the global-module set as well.
clear_WithGlobals(c) ==
  Outcome([c EXCEPT !.modules = EmptyMap, !.globals = {}], None)

clear(c) == Outcome([c EXCEPT !.modules = EmptyMap], None)

\* getDynamicMetadataByToken(token, metadataKey). A list field the stored
\* configuration lacks reads as undefined, and an empty list is truthy.
MetadataField(metadata, key) ==
  IF key = "modules" THEN metadata.modules
  ELSE IF key = "imports" THEN metadata.imports
  ELSE <<>>

getDynamicMetadataByToken(c, token, metadataKey) ==
  IF token \in DOMAIN c.metadata /\ metadataKey \in c.metadata[token].keys
  THEN MetadataField(c.metadata[token], metadataKey)
  ELSE <<>>

\* ---------------------------------------------------------------- calls

\* Tokens a caller may hand in whether or not they are registered; the
\* populating calls are given these.
ProbeTokens == {TokenOf("Sub", <<>>)}

TokenInputs == DOMAIN modules \cup ProbeTokens

\* The record of a completed call: its name, the error it raised, whether the
\* token it was given (for addModule: the token it computed) was in the
\* Registry when it began, whether its lookup of a related module found one,
\* and what it returned.
Call(op, err, had, hit, ret) ==
  [op |-> op, err |-> err, had |-> had, hit |-> hit, ret |-> ret]

NoCall == Call("new", None, FALSE, FALSE, <<>>)

\* The container after a call that ended with outcome r.
Becomes(r) ==
  /\ modules' = r.c.modules
  /\ dynamicModulesMetadata' = r.c.metadata
  /\ globalModules' = r.c.globals

\* Number of providers, injectables, exports and controllers held.
RECURSIVE ContribOver(_)
ContribOver(ts) ==
  IF ts = {}
  THEN 0
  ELSE LET t == CHOOSE x \in ts : TRUE
       IN  Cardinality(modules[t].components) + Cardinality(modules[t].injectables)
           + Cardinality(modules[t].exports) + Cardinality(modules[t].routes)
           + ContribOver(ts \ {t})

Contrib == ContribOver(DOMAIN modules)

\* Whether addModule(ref, scope) finds its token in the Registry.
Registered(ref, scope) == ref # Absent /\ TokenOf(ref, scope) \in DOMAIN modules

Init ==
  /\ modules = EmptyMap
  /\ dynamicModulesMetadata = EmptyMap
  /\ globalModules = {}
  /\ epoch = 0
  /\ last = NoCall

AddModule ==
  \E call \in Registrations :
    LET ref == call[1]
        scope == call[2]
    IN
    /\ ref = Absent \/ Registered(ref, scope)
         \/ Cardinality(DOMAIN modules) + epoch < MaxModules
    /\ LET r == addModule(Here, ref, scope, epoch)
       IN  /\ Becomes(r)
           /\ last' = Call("addModule", r.err, Registered(ref, scope), FALSE, <<>>)
    /\ UNCHANGED epoch

\* addModule with a descriptor that leads back to itself.
AddCyclicModule ==
  \E call \in CyclicRegistrations :
    LET ref == call[1]
        scope == call[2]
    IN
    /\ Registered(ref, scope) \/ Cardinality(DOMAIN modules) + epoch < MaxModules
    /\ LET r == addModule(Here, ref, scope, epoch)
       IN  /\ Becomes(r)
           /\ last' = Call("addModule", r.err, Registered(ref, scope), FALSE, <<>>)
    /\ UNCHANGED epoch

AddRelatedModule ==
  \E ref \in RelatedRefs, token \in TokenInputs :
    /\ LET r == addRelatedModule(Here, ref, token)
       IN  /\ Becomes(r)
           /\ last' = Call("addRelatedModule", r.err, token \in DOMAIN modules,
                           /\ token \in DOMAIN modules
                           /\ Lookup(Here, RelatedToken(modules[token], ref)) # {},
                           <<>>)
    /\ UNCHANGED epoch

\* The guard of a populating call: room for one more contribution.
Room(token) == token \in DOMAIN modules => Contrib < MaxContrib

AddComponent ==
  \E component \in Components, token \in ProbeTokens :
    /\ Room(token)
    /\ LET r == addComponent(Here, component, token)
       IN  /\ Becomes(r)
           /\ last' = Call("addComponent", r.err, token \in DOMAIN modules, FALSE, <<>>)
    /\ UNCHANGED epoch

AddInjectable ==
  \E injectable \in Components, token \in ProbeTokens :
    /\ Room(token)
    /\ LET r == addInjectable(Here, injectable, token)
       IN  /\ Becomes(r)
           /\ last' = Call("addInjectable", r.err, token \in DOMAIN modules, FALSE, <<>>)
    /\ UNCHANGED epoch

AddExportedComponent ==
  \E exportedComponent \in Components, token \in ProbeTokens :
    /\ Room(token)
    /\ LET r == addExportedComponent(Here, exportedComponent, token)
       IN  /\ Becomes(r)
           /\ last' = Call("addExportedComponent", r.err, token \in DOMAIN modules,
                           FALSE, <<>>)
    /\ UNCHANGED epoch

AddController ==
  \E controller \in Components, token \in ProbeTokens :
    /\ Room(token)
    /\ LET r == addController(Here, controller, token)
       IN  /\ Becomes(r)
           /\ last' = Call("addController", r.err, token \in DOMAIN modules, FALSE, <<>>)
    /\ UNCHANGED epoch

BindGlobalScope ==
  /\ Becomes(bindGlobalScope(Here))
  /\ last' = Call("bindGlobalScope", None, FALSE, FALSE, <<>>)
  /\ UNCHANGED epoch

\* A clear that drops records starts a new generation of record identities.
Clear ==
  /\ DOMAIN modules # {} => epoch < MaxClears
  /\ Becomes(clear(Here))
  /\ epoch' = IF DOMAIN modules # {} THEN epoch + 1 ELSE epoch
  /\ last' = Call("clear", None, FALSE, FALSE, <<>>)

GetDynamicMetadataByToken ==
  \E token \in ProbeTokens \cup DOMAIN dynamicModulesMetadata, key \in MetadataKeys :
    /\ last' = Call("getDynamicMetadataByToken", None,
                    token \in DOMAIN dynamicModulesMetadata, FALSE,
                    getDynamicMetadataByToken(Here, token, key))
    /\ UNCHANGED <<modules, dynamicModulesMetadata, globalModules, epoch>>

Next ==
  \/ AddModule
  \/ AddRelatedModule
  \/ AddComponent
  \/ AddInjectable
  \/ AddExportedComponent
  \/ AddController
  \/ BindGlobalScope
  \/ Clear
  \/ GetDynamicMetadataByToken

Spec == Init /\ [][Next]_vars

\* The container while modules are registered and linked and bindGlobalScope
\* has not run.
NextBeforeBinding ==
  \/ AddModule
  \/ AddRelatedModule

SpecBeforeBinding == Init /\ [][NextBeforeBinding]_vars

\* The container under its top-level operations alone: registration, linking,
\* global binding and clearing, in any order.
NextTopLevel ==
  \/ AddModule
  \/ AddRelatedModule
  \/ BindGlobalScope
  \/ Clear

SpecTopLevel == Init /\ [][NextTopLevel]_vars

\* The container when callers also register descriptors that lead back to
\* themselves.
NextCyclic ==
  \/ AddModule
  \/ AddCyclicModule
  \/ BindGlobalScope
  \/ Clear

SpecCyclic == Init /\ [][NextCyclic]_vars

\* ---------------------------------------------------------------- properties

\* The scopes under which something is or may be registered.
KnownScopes == ScopeInputs \cup {t.scope : t \in DOMAIN modules}

PopulatingCalls ==
  {"addComponent", "addInjectable", "addExportedComponent", "addController"}

\* The outcomes of the four populating calls for one component and token.
PopulateOutcomes(component, token) ==
  { addComponent(Here, component, token),
    addInjectable(Here, component, token),
    addExportedComponent(Here, component, token),
    addController(Here, component, token) }

\* The stores a call with outcome r leaves are the ones it found, but for the
\* record under token.
OnlyRecordChanged(r, token) ==
  /\ DOMAIN r.c.modules = DOMAIN modules
  /\ \A t \in DOMAIN modules \ {token} : r.c.modules[t] = modules[t]
  /\ r.c.metadata = dynamicModulesMetadata
  /\ r.c.globals = globalModules

\* C1 (idempotent registration): in every state, addModule with a reference
\* and scope whose token the Registry already holds returns normally and leaves
\* the Registry (the same record under the token, every field as it was), the
\* dynamic metadata store and the global-module set as they were.
C1_IdempotentRegistration ==
  \A ref \in Refs \ {Absent}, scope \in KnownScopes :
    TokenOf(ref, scope) \in DOMAIN modules
      => addModule(Here, ref, scope, epoch) = Outcome(Here, None)

\* A second addModule for a registered dynamic module has returned.
C1_Witness ==
  /\ last.op = "addModule" /\ last.had /\ last.err = None
  /\ \E t \in DOMAIN modules : t.dynamic.defined /\ modules[t].relatedModules # {}

\* C2 (unknown-token rejection): in every state, each of addComponent,
\* addInjectable, addExportedComponent and addController raises
\* UnknownModuleException and changes nothing when its token is not in the
\* Registry, and raises nothing and changes only the record under its token
\* when it is.
C2_UnknownTokenRejection ==
  \A component \in Components, token \in TokenInputs :
    \A r \in PopulateOutcomes(component, token) :
      IF token \notin DOMAIN modules
      THEN r = Outcome(Here, "UnknownModuleException")
      ELSE r.err = None /\ OnlyRecordChanged(r, token)

\* A populating call was rejected while the Registry held records.
C2_Witness ==
  /\ last.op \in PopulatingCalls /\ last.err = "UnknownModuleException"
  /\ DOMAIN modules # {}

\* C3 (absent module reference): in every state, addModule with an absent
\* reference raises InvalidModuleException and leaves the Registry, the dynamic
\* metadata store and the global-module set as they were.
C3_AbsentModuleRejected ==
  \A scope \in KnownScopes :
    addModule(Here, Absent, scope, epoch) = Outcome(Here, "InvalidModuleException")

\* addModule has raised InvalidModuleException over a non-empty container.
C3_Witness ==
  /\ last.op = "addModule" /\ last.err = "InvalidModuleException"
  /\ DOMAIN modules # {} /\ globalModules # {}

\* C4 (global fan-out completeness): right after bindGlobalScope, every
\* registered non-global module has every other member of the global-module
\* set among its related modules.
C4_GlobalFanOut ==
  last.op = "bindGlobalScope" =>
    \A t \in DOMAIN modules, g \in globalModules :
      (~isGlobalModule(modules[t].metatype) /\ modules[t].id # g)
        => g \in modules[t].relatedModules

\* bindGlobalScope has run over a non-global module and two global ones.
C4_Witness ==
  /\ last.op = "bindGlobalScope"
  /\ \E t \in DOMAIN modules : ~isGlobalModule(modules[t].metatype)
  /\ Cardinality(globalModules) >= 2

\* C5 (no self-relation): no record of the Registry is among its own related
\* modules.
C5_NoSelfRelation ==
  \A t \in DOMAIN modules : modules[t].id \notin modules[t].relatedModules

\* bindGlobalScope has run over a registered global module that has related
\* modules.
C5_Witness ==
  /\ last.op = "bindGlobalScope"
  /\ \E t \in DOMAIN modules :
       /\ modules[t].id \in globalModules
       /\ modules[t].relatedModules # {}

\* C6 (scope sensitivity): a dynamic module registered under two different
\* scopes has two different tokens, and the Registry holds under each a record
\* of its own that carries the scope it was registered with.
C6_ScopeSensitivity ==
  \A d \in DescriptorNames, s1 \in KnownScopes, s2 \in KnownScopes :
    s1 # s2 =>
      LET t1 == TokenOf(d, s1)
          t2 == TokenOf(d, s2)
      IN  /\ t1 # t2
          /\ t1 \in DOMAIN modules =>
               /\ modules[t1].scope = s1
               /\ modules[t1].metatype = Descriptors[d].module
          /\ (t1 \in DOMAIN modules /\ t2 \in DOMAIN modules)
               => modules[t1].id # modules[t2].id

\* The same descriptor is registered under two scopes.
C6_Witness ==
  \E d \in DescriptorNames, s1 \in ScopeInputs, s2 \in ScopeInputs :
    /\ s1 # s2
    /\ TokenOf(d, s1) \in DOMAIN modules
    /\ TokenOf(d, s2) \in DOMAIN modules
    /\ last.op = "addModule" /\ ~last.had /\ last.err = None

\* The references a descriptor lists in its `modules` and `imports` fields.
NestedRefs(d) ==
  {Descriptors[d].modules[i] :
     i \in IF "modules" \in Descriptors[d].keys
           THEN DOMAIN Descriptors[d].modules ELSE {}}
  \cup
  {Descriptors[d].imports[i] :
     i \in IF "imports" \in Descriptors[d].keys
           THEN DOMAIN Descriptors[d].imports ELSE {}}

\* C7 (dynamic nested registration): in every state, an addModule of a
\* descriptor whose token is new, if it returns normally, leaves a record for
\* every module of the descriptor's `modules` and `imports` lists under the
\* token of that module for the scope extended by the descriptor's type.
C7_DynamicNestedRegistration ==
  \A d \in DescriptorNames, scope \in KnownScopes :
    LET r == addModule(Here, d, scope, epoch)
    IN  (TokenOf(d, scope) \notin DOMAIN modules /\ r.err = None)
          => \A n \in NestedRefs(d) :
               TokenOf(n, Append(scope, Descriptors[d].module))
                 \in DOMAIN r.c.modules

\* addModule has registered DynMod and the two modules it lists.
C7_Witness ==
  /\ last.op = "addModule" /\ ~last.had /\ last.err = None
  /\ \E scope \in ScopeInputs :
       /\ TokenOf("DynMod", scope) \in DOMAIN modules
       /\ TokenOf("Sub", Append(scope, "Root")) \in DOMAIN modules
       /\ TokenOf("Glob", Append(scope, "Root")) \in DOMAIN modules

\* The list a token's own dynamic configuration holds under a key.
ConfiguredList(token, key) ==
  IF token.dynamic.defined /\ key \in token.dynamic.keys
  THEN MetadataField(token.dynamic, key)
  ELSE <<>>

\* C8 (dynamic metadata lookup): in every state, getDynamicMetadataByToken for
\* a token that is or was registered returns the list its dynamic
\* configuration holds under the key, and the empty list when the token has no
\* stored metadata or the configuration lacks the field.
C8_DynamicMetadataLookup ==
  \A token \in TokenInputs \cup DOMAIN dynamicModulesMetadata, key \in MetadataKeys :
    getDynamicMetadataByToken(Here, token, key) =
      IF token \in DOMAIN modules \cup DOMAIN dynamicModulesMetadata
      THEN ConfiguredList(token, key)
      ELSE <<>>

\* A lookup has returned the imports of a registered DynMod.
C8_Witness ==
  /\ last.op = "getDynamicMetadataByToken" /\ last.had
  /\ last.ret = <<"Glob">>

\* C9 (related-module linking matches registration scoping): in every state,
\* for an owner O of the Registry and a reference R registered under O's scope
\* extended by O's type, addRelatedModule(R, O's token) adds exactly R's record
\* to O's related modules.
C9_RelatedModuleLinking ==
  \A ref \in Refs \ {Absent}, token \in DOMAIN modules :
    LET owner == modules[token]
        child == TokenOf(ref, Append(owner.scope, owner.metatype))
        r     == addRelatedModule(Here, ref, token)
    IN  child \in DOMAIN modules =>
          /\ r.err = None
          /\ r.c.modules[token].relatedModules
               = owner.relatedModules \cup {modules[child].id}
          /\ OnlyRecordChanged(r, token)

\* addRelatedModule has found the related module and linked it.
C9_Witness ==
  /\ last.op = "addRelatedModule" /\ last.had /\ last.hit
  /\ \E t \in DOMAIN modules :
       \E u \in DOMAIN modules :
         /\ u.scope = Append(t.scope, t.module)
         /\ modules[u].id \in modules[t].relatedModules

C11_AtomicClear ==
  last.op = "clear" =>
    /\ DOMAIN modules = {}
    /\ DOMAIN dynamicModulesMetadata = {}

\* C11 as the code has it: in every state, clear returns normally and leaves a
\* Registry with no record, and every list getDynamicMetadataByToken read
\* before the call it reads after it.
C11_ClearDropsRecordsOnly ==
  LET r == clear(Here)
  IN  /\ r.err = None
      /\ DOMAIN r.c.modules = {}
      /\ \A token \in DOMAIN dynamicModulesMetadata, key \in MetadataKeys :
           getDynamicMetadataByToken(r.c, token, key)
             = getDynamicMetadataByToken(Here, token, key)

\* clear has returned and a list stored before it is still readable.
C11_Witness ==
  /\ last.op = "clear"
  /\ DOMAIN modules = {}
  /\ \E token \in DOMAIN dynamicModulesMetadata, key \in MetadataKeys :
       getDynamicMetadataByToken(Here, token, key) # <<>>

\* C12 (asymmetric clear): in every state, clear returns normally, leaves the
\* Registry with no record, and leaves the dynamic metadata store and the
\* global-module set exactly as they were.
C12_AsymmetricClear ==
  clear(Here) = Outcome(Container(EmptyMap, dynamicModulesMetadata, globalModules), None)

\* clear has returned from a container that held metadata and global modules.
C12_Witness ==
  /\ last.op = "clear"
  /\ epoch > 0
  /\ globalModules # {}
  /\ DOMAIN dynamicModulesMetadata # {}

\* C13 (metadata tokens are backed by records), as the specification states
\* it: in every state between completed calls, every token with an entry in
\* the dynamic metadata store has a record in the Registry.
C13_MetadataBacked ==
  DOMAIN dynamicModulesMetadata \subseteq DOMAIN modules

\* C13 as the code has it: in every state between completed calls in which no
\* clear has dropped a record, every token with an entry in the dynamic
\* metadata store has a record in the Registry.
C13_MetadataBackedBeforeClear ==
  epoch = 0 => DOMAIN dynamicModulesMetadata \subseteq DOMAIN modules

\* A registration that raised an error on a nested module has left its
\* configuration in the store, and nothing has been cleared.
C13_Witness ==
  /\ epoch = 0
  /\ last.op = "addModule" /\ last.err = "InvalidModuleException"
  /\ DOMAIN dynamicModulesMetadata # {}


\* The global modules among the related modules of the record under token t.
GlobalEdges(t) == modules[t].relatedModules \cap globalModules

\* C14 (global modules are disjoint from related-module edges before binding),
\* as the specification states it: in every state reached by addModule and
\* addRelatedModule calls alone, no record's relatedModules holds a member of
\* the global-module set.
C14_GlobalsDisjointBeforeBinding ==
  \A t \in DOMAIN modules : GlobalEdges(t) = {}

\* C14 as the code has it: in every state reached by addModule and
\* addRelatedModule calls alone, a member of the global-module set is among a
\* record's relatedModules only as an import of that record, that is, it is
\* registered under the record's scope extended by the record's type.
C14_GlobalEdgesAreImports ==
  \A t \in DOMAIN modules :
    \A g \in GlobalEdges(t) :
      g.token.scope = NestedScope(modules[t].scope, modules[t].metatype)

\* addRelatedModule has linked a global module to its owner, and
\* bindGlobalScope has not run.
C14_Witness ==
  /\ last.op = "addRelatedModule" /\ last.hit
  /\ \E t \in DOMAIN modules : GlobalEdges(t) # {}


\* The step is a call addModule(ref, scope) that ended with outcome r.
AddModuleStep(r) ==
  /\ last'.op = "addModule"
  /\ last'.err = r.err
  /\ modules' = r.c.modules
  /\ dynamicModulesMetadata' = r.c.metadata
  /\ globalModules' = r.c.globals

\* The references a descriptor hands to nested registration, in the order
\* addDynamicMetadata registers them: its `modules`, then its `imports`.
NestedList(d) ==
  (IF "modules" \in Descriptors[d].keys THEN Descriptors[d].modules ELSE <<>>)
    \o (IF "imports" \in Descriptors[d].keys THEN Descriptors[d].imports ELSE <<>>)

\* C15 (a failed nested registration): every addModule call on a dynamic
\* descriptor that raises an error leaves a record under the descriptor's own
\* token only if the Registry held one before the call, drops no record, and
\* leaves the nested modules it registered before the error in the Registry.
C15_FailedTokenNotRegistered ==
  [][\A d \in DescriptorNames, scope \in ScopeInputs :
       LET r == addModule(Here, d, scope, epoch)
           nested == NestedScope(scope, extractMetadata(d).type)
       IN  (AddModuleStep(r) /\ r.err # None)
             => /\ TokenOf(d, scope) \in DOMAIN modules'
                    <=> TokenOf(d, scope) \in DOMAIN modules
                /\ DOMAIN modules \subseteq DOMAIN modules'
                /\ \A i \in DOMAIN NestedList(d) :
                     (\A j \in 1..i : NestedList(d)[j] # Absent)
                       => TokenOf(NestedList(d)[i], nested) \in DOMAIN modules']_vars


\* C16 (bindGlobalScope is idempotent): in every state, bindGlobalScope raises
\* nothing, and running it again on the container it leaves gives that same
\* container: every record's relatedModules, the Registry, the dynamic
\* metadata store and the global-module set are as the first run left them.
C16_BindGlobalScopeIdempotent ==
  LET first == bindGlobalScope(Here)
  IN  /\ first.err = None
      /\ bindGlobalScope(first.c) = first

\* bindGlobalScope has run and has bound two global modules to each other and
\* to a third module.
C16_Witness ==
  /\ last.op = "bindGlobalScope"
  /\ \E t \in DOMAIN modules :
       /\ modules[t].id \in globalModules
       /\ GlobalEdges(t) # {}
  /\ \E t \in DOMAIN modules :
       /\ modules[t].id \notin globalModules
       /\ GlobalEdges(t) # {}


\* The identities of the records the Registry holds.
HeldRecords == {modules[t].id : t \in DOMAIN modules}

\* C18 (global flag and global set agree): in every state in which no clear
\* has dropped a record, a record the Registry holds is in the global-module
\* set exactly if its type is flagged global, and once bindGlobalScope has run
\* every record of a type not flagged global is related to every record of a
\* type flagged global.
C18_GlobalFlagAgreesWithSet ==
  epoch = 0 =>
    /\ \A t \in DOMAIN modules :
         modules[t].id \in globalModules <=> isGlobalModule(modules[t].metatype)
    /\ last.op = "bindGlobalScope" =>
         \A t \in DOMAIN modules, u \in DOMAIN modules :
           (/\ ~isGlobalModule(modules[t].metatype)
            /\ isGlobalModule(modules[u].metatype))
             => modules[u].id \in modules[t].relatedModules

\* C19 (referential integrity of edges): in every state, every record among
\* the relatedModules of a record the Registry holds is itself held by the
\* Registry.
C19_RelatedModulesHeld ==
  \A t \in DOMAIN modules : modules[t].relatedModules \subseteq HeldRecords


RECURSIVE ImportDepthFrom(_, _)
\* The depth of the import graph under a module reference: the number of
\* references on the longest path that starts at it and follows the lists of
\* the descriptors without meeting a descriptor twice.
ImportDepthFrom(ref, seen) ==
  IF ref \in seen
  THEN 0
  ELSE IF ref \notin DOMAIN AllDescriptors
  THEN 1
  ELSE LET d == AllDescriptors[ref]
           list == (IF "modules" \in d.keys THEN d.modules ELSE <<>>)
                     \o (IF "imports" \in d.keys THEN d.imports ELSE <<>>)
           below == {ImportDepthFrom(list[i], seen \cup {ref}) : i \in DOMAIN list}
       IN  1 + (IF below = {} THEN 0 ELSE CHOOSE n \in below : \A m \in below : m <= n)

ImportDepth(ref) == ImportDepthFrom(ref, {})

\* C17 (registration always finishes): every addModule call, on a reference
\* of the input set or on a descriptor that leads back to itself, ends, raising
\* nothing or one error, and never nests deeper than the import graph under its
\* reference is deep: a record it stores in its k-th nested frame has a scope k
\* types longer than the scope of the call.
C17_RegistrationFinishes ==
  [][\A call \in Registrations \cup CyclicRegistrations :
       LET r == addModule(Here, call[1], call[2], epoch)
       IN  AddModuleStep(r)
             => \A t \in DOMAIN modules' \ DOMAIN modules :
                  Len(t.scope) - Len(call[2]) + 1 <= ImportDepth(call[1])]_vars

====
